---- MODULE Spec2Model ----
(***************************************************************************)
(* The ProManage application store (src/src/store/useStore.ts): a zustand  *)
(* store wrapped in the persist middleware, plus the credential list kept  *)
(* in localStorage under 'promanage-users'.                                *)
(*                                                                         *)
(* The store's state is { user, projects, tasks, theme }.  Every call of   *)
(* set() is followed by the middleware writing the whole state under the   *)
(* key 'promanage-storage'.  login and register read and write the         *)
(* credential list directly.                                               *)
(***************************************************************************)
EXTENDS Integers, Sequences, FiniteSets, TLC

VARIABLES
    user,               \* AppState.user: Null or [id, name, email]
    projects,           \* AppState.projects: sequence of Project
    tasks,              \* AppState.tasks: sequence of Task
    theme,              \* AppState.theme: "light" | "dark"
    darkClass,          \* document.documentElement.classList contains 'dark'
    promanage_users,    \* localStorage['promanage-users']: Null or the account list
    promanage_storage,  \* localStorage['promanage-storage']: Null or the snapshot
    call,               \* the last operation invoked: [op, found, cascade]
    ret,                \* what the last operation returned
    location            \* the router's current path; no store action sets it

vars == <<user, projects, tasks, theme, darkClass,
          promanage_users, promanage_storage, call, ret, location>>

\* What the store and localStorage hold, with the record of the last call
storeVars == <<user, projects, tasks, theme, darkClass,
               promanage_users, promanage_storage, call, ret>>

----------------------------------------------------------------------------
(* Bounds and value domains *)

\* SpecCrud adds a project only below MaxProjects and a task only below MaxTasks
MaxProjects == 2
MaxTasks == 2
\* Spec and SpecAuth add a project or a task only below MaxEntities of both
MaxEntities == 2

\* JavaScript null (user: null, localStorage.getItem of a missing key)
Null == [null |-> TRUE]

\* What generateId() can return: Math.random().toString(36).substr(2, 9).
\* Math.random() lies in [0, 1); for 0 the string is "0" and the result is "".
\* Two values stand for the results: the empty string and a non-empty one, so
\* two calls can return the same id and can return different ids.
generateId == {"", "k1"}

\* What new Date().toISOString() can return
toISOString == {"2024-01-01T00:00:00.000Z"}

Names == {"Ann", "Bob"}
Emails == {"a@x.io", "b@x.io"}
Passwords == {"secret1", "secret2"}

Statuses == {"todo", "in-progress", "completed"}
Priorities == {"low", "medium", "high"}
Themes == {"light", "dark"}

----------------------------------------------------------------------------
(* Array helpers *)

\* Array.prototype.find, given the indices of the elements that satisfy the
\* predicate: the index of the first of them, 0 if there is none
FindIndex(matching) ==
    IF matching = {} THEN 0
    ELSE CHOOSE i \in matching : \A j \in matching : i <= j

\* Object spread { ...a, ...b }: b's keys win, a's other keys are kept
Spread(a, b) ==
    [f \in (DOMAIN a) \cup (DOMAIN b) |-> IF f \in DOMAIN b THEN b[f] ELSE a[f]]

----------------------------------------------------------------------------
(* Persistence *)

\* JSON.stringify / JSON.parse of a value made of strings, null, arrays and
\* objects: a storage item is the text of the value, never the value itself
Stringify(v) == [json |-> v]
Parse(item) == item.json

\* JSON.parse(localStorage.getItem('promanage-users') || '[]')
storedUsers == IF promanage_users = Null THEN <<>> ELSE Parse(promanage_users)

\* Variant of Serialize: a partialize that leaves the session user out
Serialize_withoutUser(u, p, t, th) ==
    Stringify([state |-> [projects |-> p, tasks |-> t, theme |-> th],
               version |-> 0])

\* What the persist middleware writes: the state without its functions,
\* wrapped with the version number (0 when no version option is given)
Serialize(u, p, t, th) ==
    Stringify([state |-> [user |-> u, projects |-> p, tasks |-> t, theme |-> th],
               version |-> 0])

\* The state the store is created with
\* Variant of InitialState: the default theme is dark
InitialState_dark == [user |-> Null, projects |-> <<>>, tasks |-> <<>>, theme |-> "dark"]

InitialState == [user |-> Null, projects |-> <<>>, tasks |-> <<>>, theme |-> "light"]

\* What the persist middleware restores: the stored state spread over the
\* initial state; nothing when the key is missing or the version differs
Deserialize(item) ==
    IF item # Null /\ Parse(item).version = 0
    THEN Spread(InitialState, Parse(item).state)
    ELSE InitialState

\* Variant of Persist: the snapshot is written before the state is replaced
Persist_beforeSet == promanage_storage' = Serialize(user, projects, tasks, theme)

\* The middleware's setItem after every set()
Persist == promanage_storage' = Serialize(user', projects', tasks', theme')

----------------------------------------------------------------------------
(* Initial state: the store as created, with an empty localStorage *)

Init ==
    /\ user = Null
    /\ projects = <<>>
    /\ tasks = <<>>
    /\ theme = "light"
    /\ darkClass = FALSE
    /\ promanage_users = Null
    /\ promanage_storage = Null
    /\ call = [op |-> "create", found |-> FALSE, cascade |-> FALSE]
    /\ ret = "undefined"
    /\ location = "/"

----------------------------------------------------------------------------
(* Auth actions *)

\* Variant of login: a failed attempt ends the session
login_clearsUserOnFailure(email, password) ==
    LET i == FindIndex({k \in 1..Len(storedUsers) :
                          /\ storedUsers[k].email = email
                          /\ storedUsers[k].password = password})
    IN  IF i # 0
        THEN /\ \E id \in (IF storedUsers[i].id # "" THEN {storedUsers[i].id}
                                                    ELSE generateId) :
                    user' = [id |-> id, name |-> storedUsers[i].name,
                             email |-> storedUsers[i].email]
             /\ UNCHANGED <<projects, tasks, theme, darkClass, promanage_users>>
             /\ Persist
             /\ call' = [op |-> "login", found |-> TRUE, cascade |-> FALSE]
             /\ ret' = "true"
        ELSE /\ user' = Null
             /\ UNCHANGED <<projects, tasks, theme, darkClass, promanage_users>>
             /\ Persist
             /\ call' = [op |-> "login", found |-> FALSE, cascade |-> FALSE]
             /\ ret' = "false"

\* Variant of login: a successful login starts with empty collections
login_clearsData(email, password) ==
    LET i == FindIndex({k \in 1..Len(storedUsers) :
                          /\ storedUsers[k].email = email
                          /\ storedUsers[k].password = password})
    IN  IF i # 0
        THEN /\ \E id \in (IF storedUsers[i].id # "" THEN {storedUsers[i].id}
                                                    ELSE generateId) :
                    user' = [id |-> id, name |-> storedUsers[i].name,
                             email |-> storedUsers[i].email]
             /\ projects' = <<>>
             /\ tasks' = <<>>
             /\ UNCHANGED <<theme, darkClass, promanage_users>>
             /\ Persist
             /\ call' = [op |-> "login", found |-> TRUE, cascade |-> FALSE]
             /\ ret' = "true"
        ELSE /\ UNCHANGED <<user, projects, tasks, theme, darkClass,
                            promanage_users, promanage_storage>>
             /\ call' = [op |-> "login", found |-> FALSE, cascade |-> FALSE]
             /\ ret' = "false"

login(email, password) ==
    LET i == FindIndex({k \in 1..Len(storedUsers) :
                          /\ storedUsers[k].email = email
                          /\ storedUsers[k].password = password})
    IN  IF i # 0
        THEN /\ \E id \in (IF storedUsers[i].id # "" THEN {storedUsers[i].id}
                                                    ELSE generateId) :
                    user' = [id |-> id, name |-> storedUsers[i].name,
                             email |-> storedUsers[i].email]
             /\ UNCHANGED <<projects, tasks, theme, darkClass, promanage_users>>
             /\ Persist
             /\ call' = [op |-> "login", found |-> TRUE, cascade |-> FALSE]
             /\ ret' = "true"
        ELSE /\ UNCHANGED <<user, projects, tasks, theme, darkClass,
                            promanage_users, promanage_storage>>
             /\ call' = [op |-> "login", found |-> FALSE, cascade |-> FALSE]
             /\ ret' = "false"

\* Variant of register: no test for an account with the same email
register_noDuplicateCheck(name, email, password) ==
    \E id \in generateId :
        LET newUser == [id |-> id, name |-> name, email |-> email,
                        password |-> password]
        IN  /\ promanage_users' = Stringify(Append(storedUsers, newUser))
            /\ user' = [id |-> newUser.id, name |-> name, email |-> email]
            /\ UNCHANGED <<projects, tasks, theme, darkClass>>
            /\ Persist
            /\ call' = [op |-> "register",
                        found |-> FindIndex({k \in 1..Len(storedUsers) :
                                                storedUsers[k].email = email}) # 0,
                        cascade |-> FALSE]
            /\ ret' = "true"

\* Variant of register: the duplicate test compares names instead of emails
register_checksName(name, email, password) ==
    IF FindIndex({k \in 1..Len(storedUsers) : storedUsers[k].name = name}) # 0
    THEN /\ UNCHANGED <<user, projects, tasks, theme, darkClass,
                        promanage_users, promanage_storage>>
         /\ call' = [op |-> "register", found |-> TRUE, cascade |-> FALSE]
         /\ ret' = "false"
    ELSE \E id \in generateId :
            LET newUser == [id |-> id, name |-> name, email |-> email,
                            password |-> password]
            IN  /\ promanage_users' = Stringify(Append(storedUsers, newUser))
                /\ user' = [id |-> newUser.id, name |-> name, email |-> email]
                /\ UNCHANGED <<projects, tasks, theme, darkClass>>
                /\ Persist
                /\ call' = [op |-> "register", found |-> FALSE, cascade |-> FALSE]
                /\ ret' = "true"

\* Variant of register: the session user gets an id of its own, from a second
\* call of generateId
register_secondId(name, email, password) ==
    IF FindIndex({k \in 1..Len(storedUsers) : storedUsers[k].email = email}) # 0
    THEN /\ UNCHANGED <<user, projects, tasks, theme, darkClass,
                        promanage_users, promanage_storage>>
         /\ call' = [op |-> "register", found |-> TRUE, cascade |-> FALSE]
         /\ ret' = "false"
    ELSE \E id \in generateId, id2 \in generateId :
            LET newUser == [id |-> id, name |-> name, email |-> email,
                            password |-> password]
            IN  /\ promanage_users' = Stringify(Append(storedUsers, newUser))
                /\ user' = [id |-> id2, name |-> name, email |-> email]
                /\ UNCHANGED <<projects, tasks, theme, darkClass>>
                /\ Persist
                /\ call' = [op |-> "register", found |-> FALSE, cascade |-> FALSE]
                /\ ret' = "true"

\* Variant of register: the list is rewritten with the new account only
register_replacesList(name, email, password) ==
    IF FindIndex({k \in 1..Len(storedUsers) : storedUsers[k].email = email}) # 0
    THEN /\ UNCHANGED <<user, projects, tasks, theme, darkClass,
                        promanage_users, promanage_storage>>
         /\ call' = [op |-> "register", found |-> TRUE, cascade |-> FALSE]
         /\ ret' = "false"
    ELSE \E id \in generateId :
            LET newUser == [id |-> id, name |-> name, email |-> email,
                            password |-> password]
            IN  /\ promanage_users' = Stringify(<<newUser>>)
                /\ user' = [id |-> newUser.id, name |-> name, email |-> email]
                /\ UNCHANGED <<projects, tasks, theme, darkClass>>
                /\ Persist
                /\ call' = [op |-> "register", found |-> FALSE, cascade |-> FALSE]
                /\ ret' = "true"

register(name, email, password) ==
    IF FindIndex({k \in 1..Len(storedUsers) : storedUsers[k].email = email}) # 0
    THEN /\ UNCHANGED <<user, projects, tasks, theme, darkClass,
                        promanage_users, promanage_storage>>
         /\ call' = [op |-> "register", found |-> TRUE, cascade |-> FALSE]
         /\ ret' = "false"
    ELSE \E id \in generateId :
            LET newUser == [id |-> id, name |-> name, email |-> email,
                            password |-> password]
            IN  /\ promanage_users' = Stringify(Append(storedUsers, newUser))
                /\ user' = [id |-> newUser.id, name |-> name, email |-> email]
                /\ UNCHANGED <<projects, tasks, theme, darkClass>>
                /\ Persist
                /\ call' = [op |-> "register", found |-> FALSE, cascade |-> FALSE]
                /\ ret' = "true"

\* Variant of logout: the whole store goes back to its initial state
logout_resetsStore ==
    /\ user' = Null
    /\ projects' = <<>>
    /\ tasks' = <<>>
    /\ UNCHANGED <<theme, darkClass, promanage_users>>
    /\ Persist
    /\ call' = [op |-> "logout", found |-> user # Null, cascade |-> FALSE]
    /\ ret' = "undefined"

logout ==
    /\ user' = Null
    /\ UNCHANGED <<projects, tasks, theme, darkClass, promanage_users>>
    /\ Persist
    /\ call' = [op |-> "logout", found |-> user # Null, cascade |-> FALSE]
    /\ ret' = "undefined"

----------------------------------------------------------------------------
(* Project actions *)

addProject(project) ==
    \E id \in generateId, createdAt \in toISOString :
        /\ projects' = Append(projects,
                              Spread(project, [id |-> id, createdAt |-> createdAt]))
        /\ UNCHANGED <<user, tasks, theme, darkClass, promanage_users>>
        /\ Persist
        /\ call' = [op |-> "addProject", found |-> FALSE, cascade |-> FALSE]
        /\ ret' = "undefined"

updateProject(id, project) ==
    /\ projects' = [i \in 1..Len(projects) |->
                       IF projects[i].id = id THEN Spread(projects[i], project)
                                              ELSE projects[i]]
    /\ UNCHANGED <<user, tasks, theme, darkClass, promanage_users>>
    /\ Persist
    /\ call' = [op |-> "updateProject",
                found |-> \E i \in 1..Len(projects) : projects[i].id = id,
                cascade |-> FALSE]
    /\ ret' = "undefined"

\* Variant of deleteProject: the project's tasks are kept
deleteProject_noCascade(id) ==
    /\ projects' = SelectSeq(projects, LAMBDA p : p.id # id)
    /\ UNCHANGED <<user, tasks, theme, darkClass, promanage_users>>
    /\ Persist
    /\ call' = [op |-> "deleteProject",
                found |-> \E i \in 1..Len(projects) : projects[i].id = id,
                cascade |-> \E i \in 1..Len(tasks) : tasks[i].projectId = id]
    /\ ret' = "undefined"

\* Variant of deleteProject: the project filter keeps the matches
deleteProject_filterInverted(id) ==
    /\ projects' = SelectSeq(projects, LAMBDA p : p.id = id)
    /\ tasks' = SelectSeq(tasks, LAMBDA t : t.projectId # id)
    /\ UNCHANGED <<user, theme, darkClass, promanage_users>>
    /\ Persist
    /\ call' = [op |-> "deleteProject",
                found |-> \E i \in 1..Len(projects) : projects[i].id = id,
                cascade |-> \E i \in 1..Len(tasks) : tasks[i].projectId = id]
    /\ ret' = "undefined"

deleteProject(id) ==
    /\ projects' = SelectSeq(projects, LAMBDA p : p.id # id)
    /\ tasks' = SelectSeq(tasks, LAMBDA t : t.projectId # id)
    /\ UNCHANGED <<user, theme, darkClass, promanage_users>>
    /\ Persist
    /\ call' = [op |-> "deleteProject",
                found |-> \E i \in 1..Len(projects) : projects[i].id = id,
                cascade |-> \E i \in 1..Len(tasks) : tasks[i].projectId = id]
    /\ ret' = "undefined"

----------------------------------------------------------------------------
(* Task actions *)

\* Variant of addTask: the new task is put first
addTask_prepends(task) ==
    \E id \in generateId, createdAt \in toISOString :
        /\ tasks' = <<Spread(task, [id |-> id, createdAt |-> createdAt])>> \o tasks
        /\ UNCHANGED <<user, projects, theme, darkClass, promanage_users>>
        /\ Persist
        /\ call' = [op |-> "addTask", found |-> FALSE, cascade |-> FALSE]
        /\ ret' = "undefined"

addTask(task) ==
    \E id \in generateId, createdAt \in toISOString :
        /\ tasks' = Append(tasks, Spread(task, [id |-> id, createdAt |-> createdAt]))
        /\ UNCHANGED <<user, projects, theme, darkClass, promanage_users>>
        /\ Persist
        /\ call' = [op |-> "addTask", found |-> FALSE, cascade |-> FALSE]
        /\ ret' = "undefined"

\* Variant of updateTask: the fields are merged into every task
updateTask_everyTask(id, task) ==
    /\ tasks' = [i \in 1..Len(tasks) |-> Spread(tasks[i], task)]
    /\ UNCHANGED <<user, projects, theme, darkClass, promanage_users>>
    /\ Persist
    /\ call' = [op |-> "updateTask",
                found |-> \E i \in 1..Len(tasks) : tasks[i].id = id,
                cascade |-> FALSE]
    /\ ret' = "undefined"

\* Variant of updateTask: the test of the id is inverted
updateTask_conditionInverted(id, task) ==
    /\ tasks' = [i \in 1..Len(tasks) |->
                    IF tasks[i].id # id THEN Spread(tasks[i], task) ELSE tasks[i]]
    /\ UNCHANGED <<user, projects, theme, darkClass, promanage_users>>
    /\ Persist
    /\ call' = [op |-> "updateTask",
                found |-> \E i \in 1..Len(tasks) : tasks[i].id = id,
                cascade |-> FALSE]
    /\ ret' = "undefined"

\* Variant of updateTask: a completed task cannot be given another status
updateTask_noReopen(id, task) ==
    /\ \A i \in 1..Len(tasks) :
           (tasks[i].id = id /\ tasks[i].status = "completed"
                /\ "status" \in DOMAIN task) => task.status = "completed"
    /\ tasks' = [i \in 1..Len(tasks) |->
                    IF tasks[i].id = id THEN Spread(tasks[i], task) ELSE tasks[i]]
    /\ UNCHANGED <<user, projects, theme, darkClass, promanage_users>>
    /\ Persist
    /\ call' = [op |-> "updateTask",
                found |-> \E i \in 1..Len(tasks) : tasks[i].id = id,
                cascade |-> FALSE]
    /\ ret' = "undefined"

updateTask(id, task) ==
    /\ tasks' = [i \in 1..Len(tasks) |->
                    IF tasks[i].id = id THEN Spread(tasks[i], task) ELSE tasks[i]]
    /\ UNCHANGED <<user, projects, theme, darkClass, promanage_users>>
    /\ Persist
    /\ call' = [op |-> "updateTask",
                found |-> \E i \in 1..Len(tasks) : tasks[i].id = id,
                cascade |-> FALSE]
    /\ ret' = "undefined"

\* Variant of deleteTask: the filter tests projectId, as deleteProject's does
deleteTask_byProjectId(id) ==
    /\ tasks' = SelectSeq(tasks, LAMBDA t : t.projectId # id)
    /\ UNCHANGED <<user, projects, theme, darkClass, promanage_users>>
    /\ Persist
    /\ call' = [op |-> "deleteTask",
                found |-> \E i \in 1..Len(tasks) : tasks[i].id = id,
                cascade |-> FALSE]
    /\ ret' = "undefined"

deleteTask(id) ==
    /\ tasks' = SelectSeq(tasks, LAMBDA t : t.id # id)
    /\ UNCHANGED <<user, projects, theme, darkClass, promanage_users>>
    /\ Persist
    /\ call' = [op |-> "deleteTask",
                found |-> \E i \in 1..Len(tasks) : tasks[i].id = id,
                cascade |-> FALSE]
    /\ ret' = "undefined"

----------------------------------------------------------------------------
(* Theme actions *)

\* Variant of toggleTheme: the theme is switched to dark and never back
toggleTheme_onlyDarkens ==
    LET newTheme == "dark"
    IN  /\ darkClass' = (newTheme = "dark")
        /\ theme' = newTheme
        /\ UNCHANGED <<user, projects, tasks, promanage_users>>
        /\ Persist
        /\ call' = [op |-> "toggleTheme", found |-> FALSE, cascade |-> FALSE]
        /\ ret' = "undefined"

toggleTheme ==
    LET newTheme == IF theme = "light" THEN "dark" ELSE "light"
    IN  /\ darkClass' = (newTheme = "dark")
        /\ theme' = newTheme
        /\ UNCHANGED <<user, projects, tasks, promanage_users>>
        /\ Persist
        /\ call' = [op |-> "toggleTheme", found |-> FALSE, cascade |-> FALSE]
        /\ ret' = "undefined"

setTheme(t) ==
    /\ darkClass' = (t = "dark")
    /\ theme' = t
    /\ UNCHANGED <<user, projects, tasks, promanage_users>>
    /\ Persist
    /\ call' = [op |-> "setTheme", found |-> FALSE, cascade |-> FALSE]
    /\ ret' = "undefined"

----------------------------------------------------------------------------
(* Page load: the store is created again and the middleware rehydrates it   *)
(* from localStorage; onRehydrateStorage adds the 'dark' class to the fresh *)
(* document when the restored theme is dark.                                *)

\* Variant of Rehydrate: the restored theme is not applied to the document
Rehydrate_noClass ==
    LET restored == Deserialize(promanage_storage)
    IN  /\ user' = restored.user
        /\ projects' = restored.projects
        /\ tasks' = restored.tasks
        /\ theme' = restored.theme
        /\ darkClass' = FALSE
        /\ UNCHANGED <<promanage_users, promanage_storage>>
        /\ call' = [op |-> "rehydrate", found |-> promanage_storage # Null,
                    cascade |-> FALSE]
        /\ ret' = "undefined"

Rehydrate ==
    LET restored == Deserialize(promanage_storage)
    IN  /\ user' = restored.user
        /\ projects' = restored.projects
        /\ tasks' = restored.tasks
        /\ theme' = restored.theme
        /\ darkClass' = (restored.theme = "dark")
        /\ UNCHANGED <<promanage_users, promanage_storage>>
        /\ call' = [op |-> "rehydrate", found |-> promanage_storage # Null,
                    cascade |-> FALSE]
        /\ ret' = "undefined"

----------------------------------------------------------------------------
(* Inputs the operations are called with *)

Ids == generateId

ProjectNames == {"Alpha", "Beta"}
Colors == {"#6366f1"}
Descriptions == {"about"}
Titles == {"write"}
DueDates == {"2024-02-01"}

\* addProject's argument: Omit<Project, 'id' | 'createdAt'>
ProjectInputs == [name : ProjectNames, description : Descriptions, color : Colors]

\* updateProject's argument: Partial<Project>
ProjectPartials ==
    {[name |-> "Beta"], [id |-> "k1"]} \cup ProjectInputs

\* addTask's argument: Omit<Task, 'id' | 'createdAt'>
TaskInputs ==
    [projectId : Ids, title : Titles, description : Descriptions,
     status : {"todo"}, priority : {"medium"}, dueDate : DueDates]

\* updateTask's argument: Partial<Task>
TaskPartials ==
    {[status |-> s] : s \in {"todo", "completed"}}
        \cup [title : Titles, description : Descriptions, status : {"completed"},
              priority : {"medium"}, dueDate : DueDates]

----------------------------------------------------------------------------
(* SpecAuth: the credential operations, from an empty credential list,     *)
(* interleaved with operations that put data and a theme into the store    *)

NextAuth ==
    \/ /\ UNCHANGED location
       /\ \E email \in Emails, password \in Passwords : login(email, password)
    \/ /\ UNCHANGED location
       /\ \E name \in Names, email \in Emails, password \in Passwords :
           register(name, email, password)
    \/ /\ UNCHANGED location
       /\ logout
    \/ /\ UNCHANGED location
       /\ Len(projects) + Len(tasks) < MaxEntities
       /\ addProject([name |-> "Alpha", description |-> "about", color |-> "#6366f1"])
    \/ /\ UNCHANGED location
       /\ Len(projects) + Len(tasks) < MaxEntities
       /\ addTask([projectId |-> "k1", title |-> "write", description |-> "about",
                   status |-> "todo", priority |-> "medium", dueDate |-> "2024-02-01"])
    \/ /\ UNCHANGED location
       /\ toggleTheme

SpecAuth == Init /\ [][NextAuth]_vars

----------------------------------------------------------------------------
(* SpecCrud: the project and task operations *)

NextCrud ==
    \/ /\ UNCHANGED location
       /\ Len(projects) < MaxProjects /\ \E project \in ProjectInputs : addProject(project)
    \/ /\ UNCHANGED location
       /\ \E id \in Ids, project \in ProjectPartials : updateProject(id, project)
    \/ /\ UNCHANGED location
       /\ \E id \in Ids : deleteProject(id)
    \/ /\ UNCHANGED location
       /\ Len(tasks) < MaxTasks /\ \E task \in TaskInputs : addTask(task)
    \/ /\ UNCHANGED location
       /\ \E id \in Ids, task \in TaskPartials : updateTask(id, task)
    \/ /\ UNCHANGED location
       /\ \E id \in Ids : deleteTask(id)

SpecCrud == Init /\ [][NextCrud]_vars

----------------------------------------------------------------------------
(* Spec: every operation of the store, and page loads *)

Next ==
    \/ /\ UNCHANGED location
       /\ \E password \in Passwords : login("a@x.io", password)
    \/ /\ UNCHANGED location
       /\ \E email \in Emails : register("Ann", email, "secret1")
    \/ /\ UNCHANGED location
       /\ logout
    \/ /\ UNCHANGED location
       /\ Len(projects) + Len(tasks) < MaxEntities
       /\ addProject([name |-> "Alpha", description |-> "about", color |-> "#6366f1"])
    \/ /\ UNCHANGED location
       /\ \E id \in Ids : updateProject(id, [name |-> "Beta"])
    \/ /\ UNCHANGED location
       /\ \E id \in Ids : deleteProject(id)
    \/ /\ UNCHANGED location
       /\ Len(projects) + Len(tasks) < MaxEntities
       /\ \E task \in TaskInputs : addTask(task)
    \/ /\ UNCHANGED location
       /\ \E id \in Ids : updateTask(id, [status |-> "completed"])
    \/ /\ UNCHANGED location
       /\ \E id \in Ids : deleteTask(id)
    \/ /\ UNCHANGED location
       /\ toggleTheme
    \/ /\ UNCHANGED location
       /\ \E t \in Themes : setTheme(t)
    \/ /\ UNCHANGED location
       /\ Rehydrate

Spec == Init /\ [][Next]_vars

----------------------------------------------------------------------------
(* SpecTasks: tasks moved between every status and every priority *)

NextTasks ==
    \/ /\ UNCHANGED location
       /\ Len(tasks) < MaxTasks /\ \E task \in TaskInputs : addTask(task)
    \/ /\ UNCHANGED location
       /\ \E id \in Ids, s \in Statuses : updateTask(id, [status |-> s])
    \/ /\ UNCHANGED location
       /\ \E id \in Ids, p \in Priorities : updateTask(id, [priority |-> p])
    \/ /\ UNCHANGED location
       /\ \E id \in Ids : updateTask(id, [title |-> "Read"])
    \/ /\ UNCHANGED location
       /\ \E id \in Ids : deleteTask(id)

SpecTasks == Init /\ [][NextTasks]_vars

----------------------------------------------------------------------------
(* Pages: the handlers through which the user interface calls the store *)

\* Variant of Projects_onSubmit: an edit also passes a newly generated id
Projects_onSubmit_newId(editingProject, data) ==
    IF editingProject # Null
    THEN \E id \in generateId :
             updateProject(editingProject.id, Spread(data, [id |-> id]))
    ELSE addProject([name |-> data.name, description |-> data.description,
                     color |-> data.color])

\* Projects page: submit of the project form, in edit or in create mode
Projects_onSubmit(editingProject, data) ==
    IF editingProject # Null
    THEN updateProject(editingProject.id, data)
    ELSE addProject([name |-> data.name, description |-> data.description,
                     color |-> data.color])

\* Projects page: confirm button of the delete dialog
Projects_handleDelete(deleteConfirmProject) ==
    /\ deleteConfirmProject # Null
    /\ deleteProject(deleteConfirmProject.id)

\* Variant of ProjectDetail_project: the page does not look the project up
ProjectDetail_project_unchecked(id) == [id |-> id]

\* ProjectDetail page at /projects/:id : the project it shows, if any
ProjectDetail_project(id) ==
    LET i == FindIndex({k \in 1..Len(projects) : projects[k].id = id})
    IN  IF i = 0 THEN Null ELSE projects[i]

ProjectDetail_projectTasks(id) == SelectSeq(tasks, LAMBDA t : t.projectId = id)

\* ProjectDetail page: submit of the task form, in edit or in create mode
ProjectDetail_onSubmit(id, editingTask, data) ==
    IF editingTask # Null
    THEN updateTask(editingTask.id, data)
    ELSE addTask([title |-> data.title, description |-> data.description,
                  status |-> data.status, priority |-> data.priority,
                  dueDate |-> data.dueDate, projectId |-> id])

ProjectDetail_handleDelete(deleteConfirmTask) ==
    /\ deleteConfirmTask # Null
    /\ deleteTask(deleteConfirmTask.id)

ProjectDetail_handleStatusChange(taskId, status) ==
    updateTask(taskId, [status |-> status])

\* Variant of ProjectDetail_statusToggle: the button steps through the
\* three statuses in turn
ProjectDetail_statusToggle_cycle(task) ==
    ProjectDetail_handleStatusChange(
        task.id, IF task.status = "todo" THEN "in-progress"
                 ELSE IF task.status = "in-progress" THEN "completed"
                 ELSE "todo")

\* ProjectDetail page: the round button in front of a task
ProjectDetail_statusToggle(task) ==
    ProjectDetail_handleStatusChange(
        task.id, IF task.status = "completed" THEN "todo" ELSE "completed")

Tasks_handleStatusChange(taskId, status) ==
    updateTask(taskId, [status |-> status])

Tasks_handleDelete(deleteConfirmTask) ==
    /\ deleteConfirmTask # Null
    /\ deleteTask(deleteConfirmTask.id)

----------------------------------------------------------------------------
(* Tasks page: the filters and the three status columns *)

\* The characters of the strings the model uses
Chars(str) ==
    CASE str = "" -> <<>>
      [] str = "write" -> <<"w", "r", "i", "t", "e">>
      [] str = "Read" -> <<"R", "e", "a", "d">>
      [] str = "about" -> <<"a", "b", "o", "u", "t">>
      [] str = "READ" -> <<"R", "E", "A", "D">>
      [] str = "bou" -> <<"b", "o", "u">>
      [] str = "xyz" -> <<"x", "y", "z">>

\* String.prototype.toLowerCase
toLowerCase(chars) ==
    [i \in 1..Len(chars) |->
        CASE chars[i] = "R" -> "r"
          [] chars[i] = "E" -> "e"
          [] chars[i] = "A" -> "a"
          [] chars[i] = "D" -> "d"
          [] OTHER -> chars[i]]

\* String.prototype.includes
includes(chars, searchString) ==
    \E k \in 0..(Len(chars) - Len(searchString)) :
        \A j \in 1..Len(searchString) : chars[k + j] = searchString[j]

Tasks_filteredTasks(search, statusFilter, priorityFilter, projectFilter) ==
    SelectSeq(tasks, LAMBDA task :
        LET matchesSearch ==
                \/ search = ""
                \/ includes(toLowerCase(Chars(task.title)),
                            toLowerCase(Chars(search)))
                \/ includes(toLowerCase(Chars(task.description)),
                            toLowerCase(Chars(search)))
            matchesStatus == statusFilter = "all" \/ task.status = statusFilter
            matchesPriority ==
                priorityFilter = "all" \/ task.priority = priorityFilter
            matchesProject ==
                projectFilter = "all" \/ task.projectId = projectFilter
        IN  matchesSearch /\ matchesStatus /\ matchesPriority /\ matchesProject)

\* filteredTasks.forEach((task) => groups[task.status].push(task))
RECURSIVE Tasks_forEachPush(_, _)
Tasks_forEachPush(groups, list) ==
    IF list = <<>>
    THEN groups
    ELSE Tasks_forEachPush(
             [groups EXCEPT ![Head(list).status] = Append(@, Head(list))],
             Tail(list))

\* Variant of Tasks_groupedByStatus: the tasks are grouped before filtering
Tasks_groupedByStatus_unfiltered(filteredTasks) ==
    Tasks_forEachPush([status \in Statuses |-> <<>>], tasks)

Tasks_groupedByStatus(filteredTasks) ==
    Tasks_forEachPush([status \in Statuses |-> <<>>], filteredTasks)

\* What the forms deliver after schema validation
ProjectForms == [name : ProjectNames, description : Descriptions, color : Colors]
TaskForms ==
    [title : Titles, description : Descriptions, status : Statuses,
     priority : {"medium"}, dueDate : DueDates]

\* Most projects and tasks together that the pages are followed to
MaxPageEntities == 4

----------------------------------------------------------------------------
(* SpecPages: the store driven through the pages only. A handler is run on *)
(* an entity the page renders; ProjectDetail renders its buttons only when *)
(* the project of its route exists.                                        *)

NextPages ==
    \/ /\ UNCHANGED location
       /\ Len(projects) < MaxProjects
       /\ Len(projects) + Len(tasks) < MaxPageEntities
       /\ \E data \in ProjectForms : Projects_onSubmit(Null, data)
    \/ /\ UNCHANGED location
       /\ \E i \in 1..Len(projects), data \in ProjectForms :
           Projects_onSubmit(projects[i], data)
    \/ /\ UNCHANGED location
       /\ \E i \in 1..Len(projects) : Projects_handleDelete(projects[i])
    \/ /\ UNCHANGED location
       /\ \E id \in Ids :
           /\ ProjectDetail_project(id) # Null
           /\ \/ /\ Len(tasks) < MaxTasks
                 /\ Len(projects) + Len(tasks) < MaxPageEntities
                 /\ \E data \in TaskForms : ProjectDetail_onSubmit(id, Null, data)
              \/ \E i \in 1..Len(tasks), data \in TaskForms :
                     /\ tasks[i].projectId = id
                     /\ ProjectDetail_onSubmit(id, tasks[i], data)
              \/ \E i \in 1..Len(tasks) :
                     /\ tasks[i].projectId = id
                     /\ ProjectDetail_handleDelete(tasks[i])
              \/ \E i \in 1..Len(tasks) :
                     /\ tasks[i].projectId = id
                     /\ ProjectDetail_statusToggle(tasks[i])
    \/ /\ UNCHANGED location
       /\ \E i \in 1..Len(tasks), status \in Statuses :
           /\ status # tasks[i].status
           /\ Tasks_handleStatusChange(tasks[i].id, status)
    \/ /\ UNCHANGED location
       /\ \E i \in 1..Len(tasks) : Tasks_handleDelete(tasks[i])

SpecPages == Init /\ [][NextPages]_vars

----------------------------------------------------------------------------
(* Routing: the layout around the pages, the index route, the login page   *)

\* Paths of the pages shown inside MainLayout: the sidebar's links
navItems == {"/dashboard", "/projects", "/tasks", "/settings"}

\* What MainLayout renders: nothing, or the sidebar and the page (Outlet)
MainLayout(u) == IF u = Null THEN Null ELSE [element |-> "Outlet"]

\* Variant of MainLayout_useEffect: the condition is inverted
MainLayout_useEffect_whenPresent ==
    /\ location \in navItems
    /\ user # Null
    /\ location' = "/login"
    /\ UNCHANGED storeVars

\* MainLayout's effect, run after a render at one of its paths
MainLayout_useEffect ==
    /\ location \in navItems
    /\ user = Null
    /\ location' = "/login"
    /\ UNCHANGED storeVars

\* Index's effect, run after it is rendered at "/"
Index_useEffect ==
    /\ location = "/"
    /\ location' = (IF user # Null THEN "/dashboard" ELSE "/login")
    /\ UNCHANGED storeVars

\* An effect is due: React runs it before the next event is handled
EffectPending ==
    \/ location \in navItems /\ user = Null
    \/ location = "/"

\* Login page: submit of the form
Login_onSubmit(data) ==
    /\ login(data.email, data.password)
    /\ location' = (IF ret' = "true" THEN "/dashboard" ELSE location)

\* A link of the sidebar, which MainLayout renders with the page
AppSidebar_NavLink(path) ==
    /\ MainLayout(user) # Null
    /\ location' = path
    /\ UNCHANGED storeVars

\* The sidebar's logout button: onClick={logout}
AppSidebar_Logout ==
    /\ MainLayout(user) # Null
    /\ logout
    /\ UNCHANGED location

\* The browser loads the application at a path
Load(path) ==
    /\ Rehydrate
    /\ location' = path

LoginForms == [email : {"a@x.io"}, password : Passwords]

----------------------------------------------------------------------------
(* SpecNav: sessions and routes. An event is handled only when no effect   *)
(* is due, and a due effect is eventually run.                             *)

NextNav ==
    \/ MainLayout_useEffect
    \/ Index_useEffect
    \/ /\ ~EffectPending
       /\ location = "/login"
       /\ \E data \in LoginForms : Login_onSubmit(data)
    \/ /\ ~EffectPending
       /\ location = "/register"
       /\ \E name \in Names : register(name, "a@x.io", "secret1")
       /\ UNCHANGED location
    \/ /\ ~EffectPending
       /\ location \in navItems
       /\ \E path \in navItems : AppSidebar_NavLink(path)
    \/ /\ ~EffectPending
       /\ location \in navItems
       /\ AppSidebar_Logout
    \/ /\ ~EffectPending
       /\ \E path \in navItems \cup {"/", "/login", "/register"} : Load(path)

SpecNav ==
    /\ Init
    /\ [][NextNav]_vars
    /\ WF_vars(MainLayout_useEffect)
    /\ WF_vars(Index_useEffect)

----------------------------------------------------------------------------
(* Counts and percentages shown by the pages *)

\* Variant of Math_round: the fraction is cut off
Math_round_truncates(num, den) == num \div den

\* Math.round of the quotient num / den, den > 0: the integer at or below
\* the quotient plus one half
Math_round(num, den) == (2 * num + den) \div (2 * den)

\* Variant of Dashboard_stats: todoTasks counts every task not completed
Dashboard_stats_todoIsOpen ==
    LET totalTasks == Len(tasks)
        completedTasks == Len(SelectSeq(tasks, LAMBDA t : t.status = "completed"))
        inProgressTasks == Len(SelectSeq(tasks, LAMBDA t : t.status = "in-progress"))
        todoTasks == Len(SelectSeq(tasks, LAMBDA t : t.status # "completed"))
    IN  [totalProjects |-> Len(projects),
         totalTasks |-> totalTasks,
         completedTasks |-> completedTasks,
         inProgressTasks |-> inProgressTasks,
         todoTasks |-> todoTasks,
         completionRate |-> IF totalTasks > 0
                            THEN Math_round(completedTasks * 100, totalTasks)
                            ELSE 0]

\* Dashboard: stats, without the two counts that depend on the clock
Dashboard_stats ==
    LET totalTasks == Len(tasks)
        completedTasks == Len(SelectSeq(tasks, LAMBDA t : t.status = "completed"))
        inProgressTasks == Len(SelectSeq(tasks, LAMBDA t : t.status = "in-progress"))
        todoTasks == Len(SelectSeq(tasks, LAMBDA t : t.status = "todo"))
    IN  [totalProjects |-> Len(projects),
         totalTasks |-> totalTasks,
         completedTasks |-> completedTasks,
         inProgressTasks |-> inProgressTasks,
         todoTasks |-> todoTasks,
         completionRate |-> IF totalTasks > 0
                            THEN Math_round(completedTasks * 100, totalTasks)
                            ELSE 0]

\* Dashboard: progress of a recent project
Dashboard_progress(project) ==
    LET projectTasks == SelectSeq(tasks, LAMBDA t : t.projectId = project.id)
        completedCount == Len(SelectSeq(projectTasks, LAMBDA t : t.status = "completed"))
    IN  IF Len(projectTasks) > 0
        THEN Math_round(completedCount * 100, Len(projectTasks))
        ELSE 0

\* Projects page: progress of a project card
Projects_progress(project) ==
    LET projectTasks == SelectSeq(tasks, LAMBDA t : t.projectId = project.id)
        completedCount == Len(SelectSeq(projectTasks, LAMBDA t : t.status = "completed"))
    IN  IF Len(projectTasks) > 0
        THEN Math_round(completedCount * 100, Len(projectTasks))
        ELSE 0

\* ProjectDetail page: stats
ProjectDetail_stats(id) ==
    LET projectTasks == ProjectDetail_projectTasks(id)
    IN  [total |-> Len(projectTasks),
         completed |-> Len(SelectSeq(projectTasks, LAMBDA t : t.status = "completed")),
         inProgress |-> Len(SelectSeq(projectTasks, LAMBDA t : t.status = "in-progress")),
         todo |-> Len(SelectSeq(projectTasks, LAMBDA t : t.status = "todo"))]

----------------------------------------------------------------------------
(* SpecStats: store operations that fill projects with tasks of every      *)
(* status, enough of them for percentages that are not whole               *)

MaxStatsProjects == 1
MaxStatsTasks == 3

NextStats ==
    \/ /\ UNCHANGED location
       /\ Len(projects) < MaxStatsProjects
       /\ addProject([name |-> "Alpha", description |-> "about", color |-> "#6366f1"])
    \/ /\ UNCHANGED location
       /\ Len(tasks) < MaxStatsTasks
       /\ \E i \in 1..Len(projects), data \in TaskForms :
              addTask(Spread(data, [projectId |-> projects[i].id]))
    \/ /\ UNCHANGED location
       /\ \E id \in Ids, status \in Statuses : updateTask(id, [status |-> status])
    \/ /\ UNCHANGED location
       /\ \E id \in Ids : deleteTask(id)

SpecStats == Init /\ [][NextStats]_vars

----------------------------------------------------------------------------
(* Properties *)

\* new holds exactly the elements of old at the indices in kept, in old's order
IsRemainder(old, new, kept) ==
    /\ Len(new) = Cardinality(kept)
    /\ \A i \in kept : new[Cardinality({j \in kept : j <= i})] = old[i]

HasProject(id) == \E i \in 1..Len(projects) : projects[i].id = id
HasTask(id) == \E i \in 1..Len(tasks) : tasks[i].id = id
HasAccount(email) == \E i \in 1..Len(storedUsers) : storedUsers[i].email = email

\* C1: after deleteProject(id) no project with that id and no task with that
\* projectId remains; the projects with another id and the tasks with another
\* projectId are all still there, unchanged and in the same relative order.
DeleteProjectCascades ==
    [][\A id \in Ids : (call'.op = "deleteProject" /\ deleteProject(id)) =>
          /\ \A i \in 1..Len(projects') : projects'[i].id # id
          /\ \A i \in 1..Len(tasks') : tasks'[i].projectId # id
          /\ IsRemainder(projects, projects',
                         {i \in 1..Len(projects) : projects[i].id # id})
          /\ IsRemainder(tasks, tasks',
                         {i \in 1..Len(tasks) : tasks[i].projectId # id})]_vars

\* A project with a task was deleted while another project and a task of it stay
DeleteProjectCascaded ==
    /\ call.op = "deleteProject" /\ call.found /\ call.cascade
    /\ Len(projects) = 1 /\ Len(tasks) = 1
    /\ tasks[1].projectId = projects[1].id

\* C2: register with an email the credential list already holds returns false
\* and leaves the credential list, the session user, projects, tasks and theme
\* unchanged.
RegisterDuplicateRejected ==
    [][\A name \in Names, email \in Emails, password \in Passwords :
          (call'.op = "register" /\ HasAccount(email)
              /\ register(name, email, password)) =>
              /\ ret' = "false"
              /\ promanage_users' = promanage_users
              /\ user' = user
              /\ projects' = projects
              /\ tasks' = tasks
              /\ theme' = theme]_vars

\* A duplicate registration was refused while a session, data and a dark theme
\* were in the store
DuplicateRegisterRefused ==
    /\ call.op = "register" /\ call.found /\ ret = "false"
    /\ Len(storedUsers) = 2
    /\ user # Null /\ projects # <<>> /\ tasks # <<>> /\ theme = "dark"

\* C3: login returns true exactly when an account has that email and that
\* password, and the session user then has that account's id, name and email.
LoginMatchesAccount ==
    [][\A email \in Emails, password \in Passwords :
          (call'.op = "login" /\ login(email, password)) =>
          LET matches == {i \in 1..Len(storedUsers) :
                             /\ storedUsers[i].email = email
                             /\ storedUsers[i].password = password}
          IN  /\ (ret' = "true") <=> (matches # {})
              /\ (ret' = "true") =>
                     \E i \in matches :
                         user' = [id |-> storedUsers[i].id,
                                  name |-> storedUsers[i].name,
                                  email |-> storedUsers[i].email]]_vars

\* C4: register with an email no account has returns true, appends one account
\* with that name, email, password and a generated id at the end of the stored
\* credential list, and makes that account's id, name and email the session user.
RegisterAppendsAccount ==
    [][\A name \in Names, email \in Emails, password \in Passwords :
          (call'.op = "register" /\ ~HasAccount(email)
              /\ register(name, email, password)) =>
              /\ ret' = "true"
              /\ promanage_users' # Null
              /\ Len(storedUsers') = Len(storedUsers) + 1
              /\ \A i \in 1..Len(storedUsers) : storedUsers'[i] = storedUsers[i]
              /\ LET account == storedUsers'[Len(storedUsers')]
                 IN  /\ DOMAIN account = {"id", "name", "email", "password"}
                     /\ account.id \in generateId
                     /\ account.name = name
                     /\ account.email = email
                     /\ account.password = password
                     /\ user' = [id |-> account.id, name |-> name,
                                 email |-> email]]_vars

\* A second account was registered behind the first and is the session user
SecondAccountRegistered ==
    /\ call.op = "register" /\ ~call.found /\ ret = "true"
    /\ Len(storedUsers) = 2
    /\ user # Null /\ user.email = storedUsers[2].email
    /\ user.id # storedUsers[1].id

\* C5: no two accounts of the credential list have the same email.
UniqueEmails ==
    \A i, j \in 1..Len(storedUsers) :
        i # j => storedUsers[i].email # storedUsers[j].email

\* Two accounts are stored and a registration with a taken email has been tried
TwoAccountsAfterDuplicateAttempt ==
    /\ Len(storedUsers) = 2
    /\ call.op = "register" /\ call.found

\* C6: after every operation that changes the store (a successful login or
\* register, logout, add/update/delete of a project or task, toggleTheme,
\* setTheme) the snapshot under 'promanage-storage' holds the user, projects,
\* tasks and theme that are in memory; the snapshot is never behind the memory.
SnapshotCurrent ==
    LET mutated ==
            \/ call.op \in {"logout", "addProject", "updateProject", "deleteProject",
                            "addTask", "updateTask", "deleteTask", "toggleTheme",
                            "setTheme"}
            \/ call.op \in {"login", "register"} /\ ret = "true"
    IN  /\ mutated => promanage_storage # Null
        /\ promanage_storage # Null =>
               /\ Parse(promanage_storage).state.user = user
               /\ Parse(promanage_storage).state.projects = projects
               /\ Parse(promanage_storage).state.tasks = tasks
               /\ Parse(promanage_storage).state.theme = theme
        /\ promanage_storage = Null =>
               /\ user = Null
               /\ projects = <<>>
               /\ tasks = <<>>
               /\ theme = "light"

\* A task was updated while a session, a project and a dark theme were in the store
SnapshotAfterUpdate ==
    /\ call.op = "updateTask" /\ call.found
    /\ user # Null /\ projects # <<>> /\ theme = "dark"
    /\ tasks[1].status = "completed"

\* C7: a page load that restores the store from the snapshot yields the user,
\* projects, tasks and theme that were in memory before it.
RehydrateRestoresState ==
    [][(call'.op = "rehydrate" /\ Rehydrate) =>
          /\ user' = user
          /\ projects' = projects
          /\ tasks' = tasks
          /\ theme' = theme]_vars

\* The page was loaded with a session, a project, a task and a dark theme stored
RehydratedFullStore ==
    /\ call.op = "rehydrate" /\ call.found
    /\ user # Null /\ projects # <<>> /\ tasks # <<>> /\ theme = "dark"

\* new is old with the fields of partial set on its elements with that id:
\* same length and order, other fields and other elements untouched
IsPartialUpdate(old, new, id, partial) ==
    /\ Len(new) = Len(old)
    /\ \A i \in 1..Len(old) :
           IF old[i].id = id
           THEN /\ DOMAIN new[i] = DOMAIN old[i] \cup DOMAIN partial
                /\ \A f \in DOMAIN partial : new[i][f] = partial[f]
                /\ \A f \in DOMAIN old[i] \ DOMAIN partial : new[i][f] = old[i][f]
           ELSE new[i] = old[i]

\* C8: updateTask and updateProject on an id that exists set the fields listed
\* in the partial on the entity with that id and leave its other fields, every
\* other entity, the length and the order of the collection unchanged;
\* updateTask(id, {status: 'completed'}), one of TaskPartials, changes the
\* status only.
UpdateMergesFields ==
    [][/\ \A id \in Ids, task \in TaskPartials :
              (call'.op = "updateTask" /\ HasTask(id) /\ updateTask(id, task)) =>
                  /\ IsPartialUpdate(tasks, tasks', id, task)
                  /\ projects' = projects
       /\ \A id \in Ids, project \in ProjectPartials :
              (call'.op = "updateProject" /\ HasProject(id)
                  /\ updateProject(id, project)) =>
                  /\ IsPartialUpdate(projects, projects', id, project)
                  /\ tasks' = tasks]_vars

\* One of two tasks was updated to completed and the other is still todo
OneTaskUpdated ==
    /\ call.op = "updateTask" /\ call.found
    /\ Len(tasks) = 2
    /\ tasks[1].id # tasks[2].id
    /\ tasks[1].status = "completed" /\ tasks[2].status = "todo"

\* C9 (as stated): deleteProject with an id no project has leaves the project
\* collection and the task collection unchanged.
DeleteMissingProjectIsNoOp ==
    [][\A id \in Ids :
          (call'.op = "deleteProject" /\ ~HasProject(id) /\ deleteProject(id)) =>
              /\ projects' = projects
              /\ tasks' = tasks]_vars

\* C9 (amended): deleteProject with an id no project has leaves the project
\* collection unchanged and removes exactly the tasks whose projectId is that
\* id, so the task collection is unchanged when no task refers to the id.
DeleteMissingProjectKeepsProjects ==
    [][\A id \in Ids :
          (call'.op = "deleteProject" /\ ~HasProject(id) /\ deleteProject(id)) =>
          /\ projects' = projects
          /\ IsRemainder(tasks, tasks',
                         {i \in 1..Len(tasks) : tasks[i].projectId # id})
          /\ (\A i \in 1..Len(tasks) : tasks[i].projectId # id) => tasks' = tasks]_vars

\* deleteProject was called with an id no project has, which a task referred to
DeletedMissingProject ==
    /\ call.op = "deleteProject" /\ ~call.found /\ call.cascade
    /\ projects # <<>>

\* C10: deleteTask with an id no task has leaves the task collection, contents
\* and order, and the project collection unchanged.
DeleteMissingTaskIsNoOp ==
    [][\A id \in Ids : (call'.op = "deleteTask" /\ ~HasTask(id) /\ deleteTask(id)) =>
          /\ tasks' = tasks
          /\ projects' = projects]_vars

\* deleteTask was called with an id no task has while two tasks were stored
DeletedMissingTask ==
    /\ call.op = "deleteTask" /\ ~call.found
    /\ Len(tasks) = 2 /\ projects # <<>>

\* C11: updateTask and updateProject with an id no entity has leave projects,
\* tasks, user and theme unchanged.
UpdateMissingIsNoOp ==
    [][/\ \A id \in Ids, task \in TaskPartials :
              (call'.op = "updateTask" /\ ~HasTask(id) /\ updateTask(id, task)) =>
                  /\ projects' = projects
                  /\ tasks' = tasks
                  /\ user' = user
                  /\ theme' = theme
       /\ \A id \in Ids, project \in ProjectPartials :
              (call'.op = "updateProject" /\ ~HasProject(id)
                  /\ updateProject(id, project)) =>
                  /\ projects' = projects
                  /\ tasks' = tasks
                  /\ user' = user
                  /\ theme' = theme]_vars

\* updateTask was called with an id no task has while a task that is not yet
\* completed, a session and a dark theme were in the store
UpdatedMissingTask ==
    /\ call.op = "updateTask" /\ ~call.found
    /\ tasks # <<>> /\ tasks[1].status = "todo"
    /\ user # Null /\ theme = "dark"

\* C12: the ids of the projects are pairwise distinct and the ids of the tasks
\* are pairwise distinct.
UniqueIds ==
    /\ \A i, j \in 1..Len(projects) : i # j => projects[i].id # projects[j].id
    /\ \A i, j \in 1..Len(tasks) : i # j => tasks[i].id # tasks[j].id

\* C13: deleteTask with the id of an existing task removes that one task: the
\* number of tasks goes down by exactly one, the other tasks stay unchanged in
\* their order, and the projects are unchanged.
DeleteTaskRemovesOne ==
    [][\A id \in Ids : (call'.op = "deleteTask" /\ HasTask(id) /\ deleteTask(id)) =>
          /\ Len(tasks') = Len(tasks) - 1
          /\ IsRemainder(tasks, tasks', {i \in 1..Len(tasks) : tasks[i].id # id})
          /\ projects' = projects]_vars

\* new is old with one entity appended that has the supplied fields, a
\* generated id and a creation timestamp
IsAppended(old, new, fields) ==
    /\ Len(new) = Len(old) + 1
    /\ \A i \in 1..Len(old) : new[i] = old[i]
    /\ LET entity == new[Len(new)]
       IN  /\ DOMAIN entity = DOMAIN fields \cup {"id", "createdAt"}
           /\ \A f \in DOMAIN fields : entity[f] = fields[f]
           /\ entity.id \in generateId
           /\ entity.createdAt \in toISOString

\* C14: addProject and addTask make their own collection one longer, put the
\* new entity last with the supplied fields, a generated id and a creation
\* timestamp, and leave the earlier entities and the other collection unchanged.
AddAppendsEntity ==
    [][/\ \A task \in TaskInputs : (call'.op = "addTask" /\ addTask(task)) =>
              /\ IsAppended(tasks, tasks', task)
              /\ projects' = projects
       /\ \A project \in ProjectInputs :
              (call'.op = "addProject" /\ addProject(project)) =>
                  /\ IsAppended(projects, projects', project)
                  /\ tasks' = tasks]_vars

\* A second task was added behind a different one while a project was stored
SecondTaskAdded ==
    /\ call.op = "addTask"
    /\ Len(tasks) = 2 /\ tasks[1] # tasks[2]
    /\ projects # <<>>

\* C15: whenever the session user is present, the credential list holds an
\* account with the same id, name and email.
SessionUserIsAccount ==
    user # Null =>
        \E i \in 1..Len(storedUsers) :
            /\ storedUsers[i].id = user.id
            /\ storedUsers[i].name = user.name
            /\ storedUsers[i].email = user.email

HasCredentials(email, password) ==
    \E i \in 1..Len(storedUsers) :
        storedUsers[i].email = email /\ storedUsers[i].password = password

\* C16: a login that finds no account with the given email and password
\* returns false and leaves the session user, projects, tasks, theme and the
\* persisted snapshot unchanged.
FailedLoginIsNoOp ==
    [][\A email \in Emails, password \in Passwords :
           (call'.op = "login" /\ ~HasCredentials(email, password)
                /\ login(email, password)) =>
               /\ ret' = "false"
               /\ user' = user
               /\ projects' = projects
               /\ tasks' = tasks
               /\ theme' = theme
               /\ promanage_storage' = promanage_storage]_vars

\* A login failed while a user was logged in and data was stored
LoginFailedWhileLoggedIn ==
    /\ call.op = "login" /\ ret = "false"
    /\ user # Null
    /\ projects # <<>>
    /\ theme = "dark"

\* C17: logout makes the session user absent, whatever the state, and leaves
\* projects, tasks, theme and the credential list unchanged.
LogoutClearsOnlyUser ==
    [][(call'.op = "logout" /\ logout) =>
           /\ user' = Null
           /\ projects' = projects
           /\ tasks' = tasks
           /\ theme' = theme
           /\ promanage_users' = promanage_users]_vars

\* A logged-in user logged out of a store that holds data and accounts
LoggedOutWithData ==
    /\ call.op = "logout" /\ call.found
    /\ user = Null
    /\ projects # <<>> /\ tasks # <<>>
    /\ theme = "dark"
    /\ Len(storedUsers) >= 1

\* C18: the credential list is append-only. Every step keeps each account at
\* its place with the same id, name, email and password, and a step that
\* changes the list is a register that returned true.
CredentialsAppendOnly ==
    [][/\ Len(storedUsers') >= Len(storedUsers)
       /\ \A i \in 1..Len(storedUsers) : storedUsers'[i] = storedUsers[i]
       /\ promanage_users' # promanage_users =>
              call'.op = "register" /\ ret' = "true"]_vars

\* Two accounts are stored, the first older than a project and a task that
\* were then changed, and the last operation was not a register
TwoAccountsAfterDataChange ==
    /\ Len(storedUsers) = 2
    /\ call.op = "deleteTask" /\ call.found
    /\ projects # <<>>
    /\ user = Null

AuthAndThemeOps == {"login", "register", "logout", "toggleTheme", "setTheme"}

\* C19: a step that makes projects or tasks shorter is a deleteProject or a
\* deleteTask, and login, register, logout, toggleTheme and setTheme leave both
\* collections exactly as they were.
EntitiesLeaveOnlyByDelete ==
    [][/\ (Len(projects') < Len(projects) \/ Len(tasks') < Len(tasks)) =>
              call'.op \in {"deleteProject", "deleteTask"}
       /\ call'.op \in AuthAndThemeOps =>
              projects' = projects /\ tasks' = tasks]_vars

\* An account logged in to a store that already held a project and a task
LoggedInWithData ==
    /\ call.op = "login" /\ ret = "true"
    /\ user # Null
    /\ projects # <<>> /\ tasks # <<>>

\* C20: a store that has just started with no persisted snapshot, at creation
\* or at a rehydration that found none, has no session user, no projects, no
\* tasks and theme "light".
StartsEmptyWithoutSnapshot ==
    (call.op = "create" \/ (call.op = "rehydrate" /\ ~call.found)) =>
        /\ user = Null
        /\ projects = <<>>
        /\ tasks = <<>>
        /\ theme = "light"

\* The store was rehydrated while localStorage held no snapshot
RehydratedWithoutSnapshot ==
    /\ call.op = "rehydrate" /\ ~call.found
    /\ promanage_storage = Null

\* C21: in every state, for every task and every status and every priority,
\* updateTask with that status or priority is enabled, whatever the task's
\* current value, and the step gives every task with that id the new value.
AnyStatusAndPriorityReachable ==
    /\ [](\A id \in Ids :
              HasTask(id) =>
                  /\ \A s \in Statuses : ENABLED updateTask(id, [status |-> s])
                  /\ \A p \in Priorities : ENABLED updateTask(id, [priority |-> p]))
    /\ [][/\ \A id \in Ids, s \in Statuses :
                 (call'.op = "updateTask" /\ HasTask(id)
                      /\ updateTask(id, [status |-> s])) =>
                     \A i \in 1..Len(tasks') :
                         tasks[i].id = id => tasks'[i].status = s
          /\ \A id \in Ids, p \in Priorities :
                 (call'.op = "updateTask" /\ HasTask(id)
                      /\ updateTask(id, [priority |-> p])) =>
                     \A i \in 1..Len(tasks') :
                         tasks[i].id = id => tasks'[i].priority = p]_vars

\* A task created todo and medium has been moved to another status and
\* another priority, next to a completed task
TaskMovedTwice ==
    /\ call.op = "updateTask" /\ call.found
    /\ Len(tasks) = 2
    /\ tasks[1].status = "in-progress" /\ tasks[1].priority = "low"
    /\ tasks[2].status = "completed" /\ tasks[2].priority = "high"

\* C22: toggleTheme takes light to dark and dark to light, and a second toggle
\* right after it gives the theme back; setTheme(t) ends with theme t, and a
\* second setTheme(t) right after it changes nothing; neither changes user,
\* projects or tasks.
ThemeOpsFlipAndSet ==
    [][/\ \A th \in Themes :
              (call'.op = "toggleTheme" /\ theme = th /\ toggleTheme) =>
                  /\ th = "light" => theme' = "dark"
                  /\ th = "dark" => theme' = "light"
                  /\ (ENABLED (toggleTheme /\ theme' = th))'
                  /\ ~(ENABLED (toggleTheme /\ theme' # th))'
                  /\ UNCHANGED <<user, projects, tasks>>
       /\ \A t \in Themes :
              (call'.op = "setTheme" /\ setTheme(t)) =>
                  /\ theme' = t
                  /\ (ENABLED setTheme(t))'
                  /\ ~(ENABLED (setTheme(t) /\ ~UNCHANGED storeVars))'
                  /\ UNCHANGED <<user, projects, tasks>>]_vars

\* The theme was toggled back to light in a store that holds a user and data
ToggledBackToLight ==
    /\ call.op = "toggleTheme"
    /\ theme = "light"
    /\ user # Null
    /\ projects # <<>> /\ tasks # <<>>

\* C23: through the pages only, every task's projectId is the id of a project
\* that exists.
TasksBelongToProjects ==
    \A i \in 1..Len(tasks) : HasProject(tasks[i].projectId)

\* A project was deleted on the Projects page while another project still
\* has a task
ProjectDeletedNextToTask ==
    /\ call.op = "deleteProject" /\ call.found /\ call.cascade
    /\ tasks # <<>>

\* The pages inside the layout are on screen
PagesRendered == location \in navItems /\ MainLayout(user) # Null

\* C24: the layout's pages are never on screen while the session user is
\* absent; an absent user at one of the layout's paths leads to /login; the
\* index route leads a present user to /dashboard and an absent one to /login.
LayoutGuardsSession ==
    /\ [](user = Null => ~PagesRendered)
    /\ (user = Null /\ location \in navItems) ~> (location = "/login")
    /\ [][location = "/" /\ location' # "/" =>
              location' = (IF user # Null THEN "/dashboard" ELSE "/login")]_vars
    /\ (location = "/" /\ user # Null) ~> (location = "/dashboard")
    /\ (location = "/" /\ user = Null) ~> (location = "/login")

\* After a logout from the sidebar the application is at /login
LoggedOutToLogin ==
    /\ call.op = "logout" /\ call.found
    /\ user = Null
    /\ location = "/login"

\* C25: the document root has the 'dark' class exactly when the store's
\* theme is "dark".
DarkClassMatchesTheme == darkClass <=> (theme = "dark")

\* The application was loaded with a dark theme in its snapshot
LoadedDark ==
    /\ call.op = "rehydrate" /\ call.found
    /\ theme = "dark"
    /\ darkClass

\* Every entity of new is an entity of old with the same values in fields:
\* the one at its place when the length is kept or grown, some one otherwise
KeepsFields(old, new, fields) ==
    IF Len(new) >= Len(old)
    THEN \A i \in 1..Len(old) : \A f \in fields : new[i][f] = old[i][f]
    ELSE \A j \in 1..Len(new) : \E i \in 1..Len(old) :
             \A f \in fields : new[j][f] = old[i][f]

\* C26: no step taken through the pages changes the id or createdAt of an
\* existing project or task, or the projectId of an existing task.
PagesKeepIdentity ==
    [][/\ KeepsFields(projects, projects', {"id", "createdAt"})
       /\ KeepsFields(tasks, tasks', {"id", "createdAt", "projectId"})]_vars

\* A project was edited on the Projects page while it had a completed task
ProjectEditedWithTask ==
    /\ call.op = "updateProject" /\ call.found
    /\ Len(projects) = 2
    /\ tasks # <<>> /\ tasks[1].status = "completed"

\* C30: the round button of a task on the project detail page makes a
\* completed task todo and any other task completed, keeps the task's other
\* fields and every task with another id; pressed again on a task that was
\* in-progress, it leaves the task todo.
StatusToggleFlips ==
    [][\A i \in 1..Len(tasks) :
           (call'.op = "updateTask" /\ ProjectDetail_statusToggle(tasks[i])) =>
               /\ tasks'[i].status =
                      (IF tasks[i].status = "completed" THEN "todo" ELSE "completed")
               /\ DOMAIN tasks'[i] = DOMAIN tasks[i]
               /\ \A f \in DOMAIN tasks[i] \ {"status"} : tasks'[i][f] = tasks[i][f]
               /\ \A j \in 1..Len(tasks) : tasks[j].id # tasks[i].id => tasks'[j] = tasks[j]
               /\ tasks[i].status = "in-progress" =>
                      /\ (ENABLED (/\ ProjectDetail_statusToggle(tasks[i])
                                   /\ tasks'[i].status = "todo"))'
                      /\ ~(ENABLED (/\ ProjectDetail_statusToggle(tasks[i])
                                    /\ tasks'[i].status # "todo"))']_vars

\* A task was set to completed next to a task that is in progress
CompletedNextToInProgress ==
    /\ call.op = "updateTask" /\ call.found
    /\ Len(tasks) = 2
    /\ tasks[1].status = "completed"
    /\ tasks[2].status = "in-progress"
    /\ tasks[1].id # tasks[2].id

\* Values of the Tasks page's search box and of its three filters
Searches == {"", "READ", "bou", "xyz"}
StatusFilters == {"all"} \cup Statuses
PriorityFilters == {"all", "high"}
ProjectFilters == {"all", "k1"}

\* C27: on the Tasks page every filtered task is in exactly one column, the
\* one of its status, in the order of the filtered list; the three column
\* lengths add up to the number of filtered tasks; with an empty search and
\* every filter "all" the filtered tasks are all the tasks.
ColumnsPartitionFiltered ==
    /\ Tasks_filteredTasks("", "all", "all", "all") = tasks
    /\ \A search \in Searches, statusFilter \in StatusFilters,
          priorityFilter \in PriorityFilters, projectFilter \in ProjectFilters :
           LET filteredTasks == Tasks_filteredTasks(search, statusFilter,
                                                    priorityFilter, projectFilter)
               groupedByStatus == Tasks_groupedByStatus(filteredTasks)
           IN  /\ DOMAIN groupedByStatus = Statuses
               /\ \A status \in Statuses :
                      groupedByStatus[status] =
                          SelectSeq(filteredTasks, LAMBDA t : t.status = status)
               /\ Len(groupedByStatus["todo"]) + Len(groupedByStatus["in-progress"])
                      + Len(groupedByStatus["completed"]) = Len(filteredTasks)

\* Two tasks that a search for READ and a filter on high tell apart
TasksToldApartByFilters ==
    /\ Len(tasks) = 2
    /\ Len(Tasks_filteredTasks("READ", "all", "all", "all")) = 1
    /\ Len(Tasks_filteredTasks("", "all", "high", "all")) = 1
    /\ Len(Tasks_filteredTasks("bou", "completed", "all", "k1")) = 1
    /\ Len(Tasks_filteredTasks("xyz", "all", "all", "all")) = 0

\* C28: the dashboard's todo, in-progress and completed counts add up to its
\* total, and a project detail page's three counts add up to the number of
\* tasks whose projectId is the project's id.
StatusCountsAddUp ==
    /\ Dashboard_stats.todoTasks + Dashboard_stats.inProgressTasks
           + Dashboard_stats.completedTasks = Dashboard_stats.totalTasks
    /\ Dashboard_stats.totalTasks = Len(tasks)
    /\ \A i \in 1..Len(projects) :
           LET stats == ProjectDetail_stats(projects[i].id)
           IN  /\ stats.todo + stats.inProgress + stats.completed = stats.total
               /\ stats.total =
                      Cardinality({k \in 1..Len(tasks) :
                                       tasks[k].projectId = projects[i].id})

\* A project has a task of each status
ProjectWithEveryStatus ==
    /\ projects # <<>>
    /\ ProjectDetail_stats(projects[1].id) =
           [total |-> 3, completed |-> 1, inProgress |-> 1, todo |-> 1]

\* p is an integer nearest to 100 * completed / total
IsNearestPercent(p, completed, total) ==
    /\ 2 * (100 * completed - p * total) <= total
    /\ 2 * (p * total - 100 * completed) <= total

\* C29: the percentage shown for a project, and the dashboard's completion
\* rate, is 0 when there are no tasks and otherwise an integer nearest to
\* 100 * completed / total; it is an integer from 0 to 100.
PercentIsRounded ==
    /\ LET rate == Dashboard_stats.completionRate
       IN  /\ rate \in 0..100
           /\ IF tasks = <<>> THEN rate = 0
              ELSE IsNearestPercent(rate, Dashboard_stats.completedTasks, Len(tasks))
    /\ \A i \in 1..Len(projects) :
           LET stats == ProjectDetail_stats(projects[i].id)
               progress == Projects_progress(projects[i])
           IN  /\ progress \in 0..100
               /\ progress = Dashboard_progress(projects[i])
               /\ IF stats.total = 0 THEN progress = 0
                  ELSE IsNearestPercent(progress, stats.completed, stats.total)

\* Two of a project's three tasks are completed: 67 percent
TwoOfThreeCompleted ==
    /\ projects # <<>>
    /\ ProjectDetail_stats(projects[1].id).total = 3
    /\ ProjectDetail_stats(projects[1].id).completed = 2
    /\ Projects_progress(projects[1]) = 67

====
